---- MODULE Spec2Model ----
(***************************************************************************)
(* Model of the functional core of the template repository:                *)
(*   src/lib/utils/fp.ts   Option, Either, pipe and the plain combinators  *)
(*   src/lib/utils/zod.ts  the schema-validation adapter                   *)
(*                                                                         *)
(* JavaScript values are records [k, n, s]: k is the kind of the value, n  *)
(* its number (or the heap address for a reference, or the index of a      *)
(* plain data object in Records), s its string.                            *)
(* Option and Either instances are objects on a heap that only grows;      *)
(* a reference is the index of the object in the heap, so "the same        *)
(* instance" is "the same address".  The module-level constant none of     *)
(* fp.ts is the object at address 1.                                       *)
(*                                                                         *)
(* Every library function is an operator on a machine record               *)
(*   m = [heap, calls, trace, ret]                                         *)
(* heap : the objects allocated so far                                     *)
(* calls: the log of callback invocations, [fn, arg, ret]                  *)
(* trace: the log of the functions pipe itself invoked, [i, arg, ret]      *)
(* ret  : the value the function returned                                  *)
(*                                                                         *)
(* Where a function uses the machine another call returns, that machine    *)
(* is bound as the one element of a set ({F(r) : r \in {call}}), which     *)
(* evaluates the call once.                                                *)
(***************************************************************************)
EXTENDS Integers, Sequences, FiniteSets, TLC

VARIABLES heap, calls, trace, call, ret, pc

vars == <<heap, calls, trace, call, ret, pc>>

\* ------------------------------------------------------------------ bounds
\* a call is made only while the heap holds at most MaxHeap objects
MaxHeap == 2
\* longest pipe chain of Option or Either steps
MaxChain == 3
\* longest pipe chain of plain functions (beyond the 7 typed overloads)
MaxPipe == 8

\* ------------------------------------------------------------------ values
Null == [k |-> "null", n |-> 0, s |-> ""]
Undef == [k |-> "undef", n |-> 0, s |-> ""]
NaN == [k |-> "nan", n |-> 0, s |-> ""]
Num(i) == [k |-> "num", n |-> i, s |-> ""]
Str(t) == [k |-> "str", n |-> 0, s |-> t]
Bool(b) == [k |-> "bool", n |-> (IF b THEN 1 ELSE 0), s |-> ""]
Ref(a) == [k |-> "ref", n |-> a, s |-> ""]
Obj(i) == [k |-> "obj", n |-> i, s |-> ""]

\* the plain data objects handed to the validators: { id: 1, name: "Alice" },
\* { id: "invalid" } and { user: { id: "invalid" } } (a field that is missing
\* reads as undefined)
Records ==
  <<[id |-> Num(1), name |-> Str("Alice"), user |-> Undef],
    [id |-> Str("invalid"), name |-> Undef, user |-> Undef],
    [id |-> Undef, name |-> Undef, user |-> Obj(2)]>>

\* the primitive values the inputs are drawn from: the nullish ones, the
\* falsy ones and ordinary ones
Prims == {Null, Undef, NaN, Num(0), Num(5), Str(""), Bool(FALSE)}

\* JavaScript ToNumber, as Number(x) and the operands of * apply it.  The
\* only strings of the model are "" and messages, none of them numeric.
ToNumber(x) ==
  CASE x.k = "num" -> x
    [] x.k = "null" -> Num(0)
    [] x.k = "bool" -> Num(x.n)
    [] x.k = "str" -> (IF x.s = "" THEN Num(0) ELSE NaN)
    [] OTHER -> NaN

\* parseInt(input) for the strings of the model: the leading integer of the
\* string, NaN when there is none
parseInt(input) ==
  CASE input.s = "42" -> Num(42)
    [] input.s = "7" -> Num(7)
    [] input.s = "12px" -> Num(12)
    [] OTHER -> NaN

\* ------------------------------------------------------------------ objects
\* type None = { _tag: "None" }: reading .value of it gives undefined
NoneObj == [tag |-> "None", val |-> Undef, issues |-> <<>>]
SomeObj(v) == [tag |-> "Some", val |-> v, issues |-> <<>>]
LeftObj(e) == [tag |-> "Left", val |-> e, issues |-> <<>>]
RightObj(v) == [tag |-> "Right", val |-> v, issues |-> <<>>]
\* the structured error of a failed safeParse: its issues, [path, message]
ZodErrorObj(issues) == [tag |-> "ZodError", val |-> Undef, issues |-> issues]

\* export const none: the one None object, allocated when the module loads
NoneAddr == 1
none == Ref(NoneAddr)

\* an object literal ({ _tag, ... }) allocates a fresh object
Alloc(m, obj) ==
  [m EXCEPT !.heap = Append(@, obj), !.ret = Ref(Len(m.heap) + 1)]

Return(m, v) == [m EXCEPT !.ret = v]

Tag(h, v) == IF v.k = "ref" THEN h[v.n].tag ELSE "prim"
Payload(h, v) == h[v.n].val

\* --------------------------------------------------------------- Option
\* a faulty variant: an Option handed in is returned as it is, not wrapped
some_Flatten(m, value) ==
  IF Tag(m.heap, value) \in {"Some", "None"} THEN Return(m, value)
  ELSE Alloc(m, SomeObj(value))

some(m, value) == Alloc(m, SomeObj(value))

isSome(h, option) == Tag(h, option) = "Some"

\* a faulty variant: an Option counts as absent when it has no payload
isNone_NoPayload(h, option) == Payload(h, option) = Undef

isNone(h, option) == Tag(h, option) = "None"

\* value == null: true of null and of undefined, of nothing else
LooseNull(v) == v.k \in {"null", "undef"}

\* a faulty variant: a truthiness test (!value) in place of value == null
Falsy(v) ==
  \/ v.k \in {"null", "undef", "nan"}
  \/ (v.k = "num" /\ v.n = 0)
  \/ (v.k = "str" /\ v.s = "")
  \/ (v.k = "bool" /\ v.n = 0)

fromNullable_Falsy(m, value) ==
  IF Falsy(value) THEN Return(m, none) ELSE some(m, value)

\* a faulty variant: every absent result is a None object of its own
fromNullable_Fresh(m, value) ==
  IF LooseNull(value) THEN Alloc(m, NoneObj) ELSE some(m, value)

fromNullable(m, value) ==
  IF LooseNull(value) THEN Return(m, none) ELSE some(m, value)

\* --------------------------------------------------------------- Either
left(m, error) == Alloc(m, LeftObj(error))

right(m, value) == Alloc(m, RightObj(value))

isLeft(h, either) == Tag(h, either) = "Left"

isRight(h, either) == Tag(h, either) = "Right"


\* ------------------------------------------------- the external validator
\* A schema is an input of the adapter: an object with a safeParse(value)
\* that answers { success: true, data } or { success: false, error }.  The
\* schemas of the model are UserSchema = z.object({ id: z.number(), name:
\* z.string() }) of the doc comments, ProfileSchema = z.object({ user:
\* UserSchema }), whose issues have paths of two segments, z.number()
\* .nullish(), which accepts null and undefined, z.coerce.number(), whose
\* data is Number(value), not the value it was given, and z.string()
\* .transform((s) => (s === "" ? null : s)), whose data is null for a string
\* that is not.
Schemas == {"UserSchema", "ProfileSchema", "nullish", "coerce", "emptyToNull"}

TypeName(v) ==
  CASE v.k = "num" -> "number"
    [] v.k = "str" -> "string"
    [] v.k = "bool" -> "boolean"
    [] v.k = "null" -> "null"
    [] v.k = "undef" -> "undefined"
    [] v.k = "nan" -> "nan"
    [] OTHER -> "object"

InvalidType(path, expected, v) ==
  [path |-> path,
   message |-> IF v.k = "undef" THEN "Required"
               ELSE "Expected " \o expected \o ", received " \o TypeName(v)]

\* the issues of z.object({ id: z.number(), name: z.string() }) for the value
\* found at a path
UserIssues(path, v) ==
  IF v.k # "obj" THEN <<InvalidType(path, "object", v)>>
  ELSE (IF Records[v.n].id.k = "num" THEN <<>>
        ELSE <<InvalidType(path \o <<"id">>, "number", Records[v.n].id)>>)
       \o (IF Records[v.n].name.k = "str" THEN <<>>
           ELSE <<InvalidType(path \o <<"name">>, "string", Records[v.n].name)>>)

\* the issues a schema reports for a value, in the order it reports them
Issues(schema, v) ==
  CASE schema = "UserSchema" -> UserIssues(<<>>, v)
    [] schema = "ProfileSchema" ->
         IF v.k # "obj" THEN <<InvalidType(<<>>, "object", v)>>
         ELSE UserIssues(<<"user">>, Records[v.n].user)
    [] schema = "nullish" ->
         IF v.k \in {"num", "null", "undef"} THEN <<>>
         ELSE <<InvalidType(<<>>, "number", v)>>
    [] schema = "coerce" ->
         IF ToNumber(v).k = "num" THEN <<>>
         ELSE <<InvalidType(<<>>, "number", ToNumber(v))>>
    [] schema = "emptyToNull" ->
         IF v.k = "str" THEN <<>> ELSE <<InvalidType(<<>>, "string", v)>>

\* result.data of a successful safeParse: the value as the schema parsed it
Data(schema, v) ==
  CASE schema = "coerce" -> ToNumber(v)
    [] schema = "emptyToNull" -> (IF v = Str("") THEN Null ELSE v)
    [] OTHER -> v

\* schema.safeParse(value): logged as a call; on failure the error object is
\* allocated and ret is a reference to it, on success ret is the data
safeParse(m, schema, value) ==
  LET fn == [name |-> "safeParse", f |-> schema, g |-> "", v |-> Undef]
      found == Issues(schema, value)
      data == Data(schema, value)
      r == IF found = <<>> THEN Return(m, data) ELSE Alloc(m, ZodErrorObj(found))
      logged == [r EXCEPT !.calls = Append(@, [fn |-> fn, arg |-> value, ret |-> r.ret])]
  IN [m |-> logged, success |-> (found = <<>>), data |-> data, error |-> r.ret]

RECURSIVE join(_, _)
\* Array.prototype.join
join(strs, sep) ==
  IF strs = <<>> THEN ""
  ELSE IF Len(strs) = 1 THEN strs[1]
  ELSE strs[1] \o sep \o join(Tail(strs), sep)

\* ------------------------------------------------- the validation adapter
\* a faulty variant: the value handed in is wrapped, not the data parsed from it
parseOption_Input(m, schema, value) ==
  LET result == safeParse(m, schema, value)
  IN IF result.success THEN some(result.m, value) ELSE Return(result.m, none)

\* a faulty variant: data that is null or undefined is turned into none
parseOption_Nullable(m, schema, value) ==
  LET result == safeParse(m, schema, value)
  IN IF result.success THEN fromNullable(result.m, result.data)
     ELSE Return(result.m, none)

parseOption(m, schema, value) ==
  LET result == safeParse(m, schema, value)
  IN IF result.success THEN some(result.m, result.data) ELSE Return(result.m, none)

\* a faulty variant: the Left holds a new error that keeps the first issue only
parseEither_FirstIssue(m, schema, value) ==
  LET result == safeParse(m, schema, value)
  IN IF result.success THEN right(result.m, result.data)
     ELSE CHOOSE out \in
            {left(e, e.ret) :
               e \in {Alloc(result.m,
                            ZodErrorObj(<<result.m.heap[result.error.n].issues[1]>>))}} : TRUE

parseEither(m, schema, value) ==
  LET result == safeParse(m, schema, value)
  IN IF result.success THEN right(result.m, result.data)
     ELSE left(result.m, result.error)

\* a faulty variant: the message of the first issue alone, no path
parseEitherMessage_NoPath(m, schema, value) ==
  LET result == safeParse(m, schema, value)
      issues == result.m.heap[result.error.n].issues
  IN IF result.success THEN right(result.m, result.data)
     ELSE left(result.m, Str(issues[1].message))

parseEitherMessage(m, schema, value) ==
  LET result == safeParse(m, schema, value)
      issues == result.m.heap[result.error.n].issues
      message == join([i \in 1..Len(issues) |->
                         join(issues[i].path, ".") \o ": " \o issues[i].message], ", ")
  IN IF result.success THEN right(result.m, result.data)
     ELSE left(result.m, Str(message))

createOptionValidator(m, schema, value) == parseOption(m, schema, value)

createEitherValidator(m, schema, value) == parseEither(m, schema, value)

\* ------------------------------------------------------------- callbacks
\* A callback is a descriptor [name, f, g, v]: name says which function it
\* is, f and g name the functions a lambda closes over, v the value a
\* thunk closes over.
Cb(name) == [name |-> name, f |-> "", g |-> "", v |-> Undef]

\* constant(a) = () => a
constant(a) == [name |-> "constant", f |-> "", g |-> "", v |-> a]

\* a => some(f(a)) and a => right(f(a)), the functions with which flatMap and
\* flatMapEither do the work of map and mapEither
SomeOf(f) == [name |-> "someOf", f |-> f, g |-> "", v |-> Undef]
RightOf(f) == [name |-> "rightOf", f |-> f, g |-> "", v |-> Undef]

\* a => flatMap(g)(f(a)), the right-hand side of the associativity law
Kleisli(f, g) == [name |-> "kleisli", f |-> f, g |-> g, v |-> Undef]

\* x => x * 2
Double(x) == LET t == ToNumber(x) IN IF t.k = "nan" THEN NaN ELSE Num(t.n * 2)

\* x => x + 1, for an x that is no string and no object (+ would concatenate)
Inc(x) == LET t == ToNumber(x) IN IF t.k = "nan" THEN NaN ELSE Num(t.n + 1)

\* const parseNumber = (str) => { const num = Number(str)
\*   return isNaN(num) ? left("Invalid number format") : right(num) }
parseNumber(m, str) ==
  LET num == ToNumber(str)
  IN IF num.k = "nan" THEN left(m, Str("Invalid number format")) ELSE right(m, num)

\* const validateRange = (_n) => right(0)
validateRange(m, n) == right(m, Num(0))

\* const getUserProfile = (_user) => none
getUserProfile(m, user) == Return(m, none)

\* String(n) for a natural number n
Digit(d) ==
  CASE d = 0 -> "0" [] d = 1 -> "1" [] d = 2 -> "2" [] d = 3 -> "3" [] d = 4 -> "4"
    [] d = 5 -> "5" [] d = 6 -> "6" [] d = 7 -> "7" [] d = 8 -> "8" [] d = 9 -> "9"

RECURSIVE NatString(_)
NatString(n) == IF n < 10 THEN Digit(n) ELSE NatString(n \div 10) \o Digit(n % 10)

\* JavaScript string conversion, for the numbers and strings the binary functions get
ToStr(x) == IF x.k = "str" THEN x.s ELSE NatString(x.n)

\* const add = (a, b) => a + b: the sum of two numbers, the concatenation
\* when either operand is a string
Add(a, b) ==
  IF a.k = "num" /\ b.k = "num" THEN Num(a.n + b.n)
  ELSE Str(ToStr(a) \o ToStr(b))

\* const multiply = (a, b) => a * b
Multiply(a, b) ==
  LET x == ToNumber(a)
      y == ToNumber(b)
  IN IF x.k = "nan" \/ y.k = "nan" THEN NaN ELSE Num(x.n * y.n)

\* curry(f) and uncurry(f) as callbacks: the descriptor names the function
\* wrapped (f) and, when that one wraps a function too, that function (g)
Curried(f) == [name |-> "curry", f |-> f.name, g |-> f.f, v |-> Undef]
Uncurried(f) == [name |-> "uncurry", f |-> f.name, g |-> f.f, v |-> Undef]

\* the function a curry or uncurry descriptor wraps
Inner(cb) == [name |-> cb.f, f |-> cb.g, g |-> "", v |-> Undef]

\* curry(f)(a), the closure (b) => f(a, b)
Partial(f, a) == [name |-> "partial", f |-> f.name, g |-> f.f, v |-> a]

\* curriedAdd(a), the closure (b) => a + b
AddTo(a) == [name |-> "addTo", f |-> "", g |-> "", v |-> a]

RECURSIVE Apply(_, _, _)
RECURSIVE Apply2(_, _, _, _)

\* f(a)(b): f is called with a, what it returns is called with b
CallCurried(m, f, a, b) ==
  CHOOSE out \in {Apply(r, r.ret, b) : r \in {Apply(m, f, a)}} : TRUE

\* a faulty variant: the two arguments reach f in the other order
curry_Flipped(m, f, a, b) == Apply2(m, f, b, a)

\* curry(f) = (a) => (b) => f(a, b): the body of the innermost function
curry(m, f, a, b) == Apply2(m, f, a, b)

\* uncurry(f) = (a, b) => f(a)(b)
uncurry(m, f, a, b) == CallCurried(m, f, a, b)

\* --------------------------------------------------- Option operations
\* a faulty variant: the input instance is updated in place and handed back
map_InPlace(m, f, option) ==
  IF isSome(m.heap, option)
  THEN CHOOSE out \in
         {[r EXCEPT !.heap[option.n].val = r.ret, !.ret = option] :
            r \in {Apply(m, f, Payload(m.heap, option))}} : TRUE
  ELSE Return(m, none)

\* a faulty variant: the result of f is returned as it is, not wrapped in a Some
map_Flat(m, f, option) ==
  IF isSome(m.heap, option)
  THEN Apply(m, f, Payload(m.heap, option))
  ELSE Return(m, none)

\* a faulty variant: f runs whatever the tag is
map_Eager(m, f, option) ==
  CHOOSE out \in
    {IF isSome(m.heap, option) THEN some(r, r.ret) ELSE Return(r, none) :
       r \in {Apply(m, f, Payload(m.heap, option))}} : TRUE

\* a faulty variant: the payload is wrapped again, f is not applied
map_Skip(m, f, option) ==
  IF isSome(m.heap, option)
  THEN some(m, Payload(m.heap, option))
  ELSE Return(m, none)

map(m, f, option) ==
  IF isSome(m.heap, option)
  THEN CHOOSE out \in {some(r, r.ret) : r \in {Apply(m, f, Payload(m.heap, option))}} : TRUE
  ELSE Return(m, none)

\* a faulty variant: the Option f returns is wrapped in a Some again
flatMap_Wrap(m, f, option) ==
  IF isSome(m.heap, option)
  THEN CHOOSE out \in {some(r, r.ret) : r \in {Apply(m, f, Payload(m.heap, option))}} : TRUE
  ELSE Return(m, none)

\* a faulty variant: no test of the tag, f is given option.value of any Option
flatMap_NoGuard(m, f, option) == Apply(m, f, Payload(m.heap, option))

flatMap(m, f, option) ==
  IF isSome(m.heap, option)
  THEN Apply(m, f, Payload(m.heap, option))
  ELSE Return(m, none)

\* a faulty variant: option.value ?? fallback, a nullish payload loses to the
\* fallback
getOrElse_Nullish(m, fallback, option) ==
  IF isSome(m.heap, option) /\ ~LooseNull(Payload(m.heap, option))
  THEN Return(m, Payload(m.heap, option))
  ELSE Return(m, fallback)

getOrElse(m, fallback, option) ==
  IF isSome(m.heap, option)
  THEN Return(m, Payload(m.heap, option))
  ELSE Return(m, fallback)

\* a faulty variant: the fallback is computed first, needed or not
getOrElseLazy_Eager(m, fallback, option) ==
  CHOOSE out \in
    {IF isSome(m.heap, option) THEN Return(r, Payload(m.heap, option)) ELSE r :
       r \in {Apply(m, fallback, Undef)}} : TRUE

getOrElseLazy(m, fallback, option) ==
  IF isSome(m.heap, option)
  THEN Return(m, Payload(m.heap, option))
  ELSE Apply(m, fallback, Undef)

\* a faulty variant: both branches are computed, then one result is picked
match_Both(m, onNone, onSome, option) ==
  CHOOSE out \in
    {IF isSome(m.heap, option) THEN r
     ELSE Return(r, r.calls[Len(m.calls) + 1].ret) :
       r \in {Apply(Apply(m, onNone, Undef), onSome, Payload(m.heap, option))}} : TRUE

match(m, onNone, onSome, option) ==
  IF isSome(m.heap, option)
  THEN Apply(m, onSome, Payload(m.heap, option))
  ELSE Apply(m, onNone, Undef)

\* --------------------------------------------------- Either operations
\* a faulty variant: f runs whatever the tag is
mapEither_Eager(m, f, either) ==
  CHOOSE out \in
    {IF isRight(m.heap, either) THEN right(r, r.ret) ELSE Return(r, either) :
       r \in {Apply(m, f, Payload(m.heap, either))}} : TRUE

\* a faulty variant: a Left is rebuilt from its payload instead of returned
mapEither_Rewrap(m, f, either) ==
  IF isRight(m.heap, either)
  THEN CHOOSE out \in {right(r, r.ret) : r \in {Apply(m, f, Payload(m.heap, either))}} : TRUE
  ELSE left(m, Payload(m.heap, either))

mapEither(m, f, either) ==
  IF isRight(m.heap, either)
  THEN CHOOSE out \in {right(r, r.ret) : r \in {Apply(m, f, Payload(m.heap, either))}} : TRUE
  ELSE Return(m, either)

\* a faulty variant: the transformed error is handed back as a success
mapLeft_Recover(m, f, either) ==
  IF isLeft(m.heap, either)
  THEN CHOOSE out \in {right(r, r.ret) : r \in {Apply(m, f, Payload(m.heap, either))}} : TRUE
  ELSE Return(m, either)

mapLeft(m, f, either) ==
  IF isLeft(m.heap, either)
  THEN CHOOSE out \in {left(r, r.ret) : r \in {Apply(m, f, Payload(m.heap, either))}} : TRUE
  ELSE Return(m, either)

\* a faulty variant: a Left is rebuilt from its payload instead of returned
flatMapEither_Rewrap(m, f, either) ==
  IF isRight(m.heap, either)
  THEN Apply(m, f, Payload(m.heap, either))
  ELSE left(m, Payload(m.heap, either))

\* a faulty variant: the Either f returned is copied into a new instance
flatMapEither_Copy(m, f, either) ==
  IF isRight(m.heap, either)
  THEN CHOOSE out \in
         {Alloc(r, r.heap[r.ret.n]) : r \in {Apply(m, f, Payload(m.heap, either))}} : TRUE
  ELSE Return(m, either)

flatMapEither(m, f, either) ==
  IF isRight(m.heap, either)
  THEN Apply(m, f, Payload(m.heap, either))
  ELSE Return(m, either)

getOrElseEither(m, fallback, either) ==
  IF isRight(m.heap, either)
  THEN Return(m, Payload(m.heap, either))
  ELSE Return(m, fallback)

\* a faulty variant: the fallback is invoked without the error, as the thunk
\* of getOrElseLazy is
getOrElseLazyEither_NoArg(m, fallback, either) ==
  IF isRight(m.heap, either)
  THEN Return(m, Payload(m.heap, either))
  ELSE Apply(m, fallback, Undef)

getOrElseLazyEither(m, fallback, either) ==
  IF isRight(m.heap, either)
  THEN Return(m, Payload(m.heap, either))
  ELSE Apply(m, fallback, Payload(m.heap, either))

matchEither(m, onLeft, onRight, either) ==
  IF isRight(m.heap, either)
  THEN Apply(m, onRight, Payload(m.heap, either))
  ELSE Apply(m, onLeft, Payload(m.heap, either))

\* export const identity = (a) => a
identity(m, a) == Return(m, a)

\* the body of each binary function of the model
Body2(m, cb, a, b) ==
  CASE cb.name = "add" -> Return(m, Add(a, b))
    [] cb.name = "multiply" -> Return(m, Multiply(a, b))
    [] cb.name = "uncurry" -> uncurry(m, Inner(cb), a, b)

\* the body of each callback of the model
Body(m, cb, a) ==
  CASE cb.name = "identity" -> identity(m, a)
    [] cb.name = "double" -> Return(m, Double(a))
    [] cb.name = "inc" -> Return(m, Inc(a))
    [] cb.name = "constant" -> Return(m, cb.v)
    [] cb.name = "some" -> some(m, a)
    [] cb.name = "fromNullable" -> fromNullable(m, a)
    [] cb.name = "getUserProfile" -> getUserProfile(m, a)
    [] cb.name = "right" -> right(m, a)
    [] cb.name = "validateRange" -> validateRange(m, a)
    [] cb.name = "parseNumber" -> parseNumber(m, a)
    [] cb.name = "parseOption" -> parseOption(m, cb.f, a)
    [] cb.name = "curry" -> Return(m, Partial(Inner(cb), a))
    [] cb.name = "partial" -> curry(m, Inner(cb), cb.v, a)
    [] cb.name = "curriedAdd" -> Return(m, AddTo(a))
    [] cb.name = "addTo" -> Return(m, Add(cb.v, a))
    [] cb.name = "someOf" ->
         CHOOSE out \in {some(r, r.ret) : r \in {Apply(m, Cb(cb.f), a)}} : TRUE
    [] cb.name = "rightOf" ->
         CHOOSE out \in {right(r, r.ret) : r \in {Apply(m, Cb(cb.f), a)}} : TRUE
    [] cb.name = "kleisli" ->
         CHOOSE out \in {flatMap(r, Cb(cb.g), r.ret) : r \in {Apply(m, Cb(cb.f), a)}} : TRUE

\* a call of a callback: logged on entry, its result filled in on return
Apply(m, cb, a) ==
  LET i == Len(m.calls) + 1
      m1 == [m EXCEPT !.calls = Append(@, [fn |-> cb, arg |-> a, ret |-> Undef])]
  IN CHOOSE out \in {[r EXCEPT !.calls[i].ret = r.ret] : r \in {Body(m1, cb, a)}} : TRUE

\* a faulty variant: f is applied first, g to its result
compose_Swapped(m, f, g, a) ==
  CHOOSE out \in {Apply(r, g, r.ret) : r \in {Apply(m, f, a)}} : TRUE

\* compose(f, g) = (a) => f(g(a))
compose(m, f, g, a) ==
  CHOOSE out \in {Apply(r, f, r.ret) : r \in {Apply(m, g, a)}} : TRUE

\* a call of a binary function, logged with both its arguments
Apply2(m, cb, a, b) ==
  LET i == Len(m.calls) + 1
      m1 == [m EXCEPT !.calls = Append(@, [fn |-> cb, arg |-> a, arg2 |-> b, ret |-> Undef])]
  IN CHOOSE out \in {[r EXCEPT !.calls[i].ret = r.ret] : r \in {Body2(m1, cb, a, b)}} : TRUE

\* (v) => parseOption(schema, v)
ParseOptionWith(schema) == [name |-> "parseOption", f |-> schema, g |-> "", v |-> Undef]

\* a faulty variant: the value goes to the schema without the nullish test
parseNullableOption_Direct(m, schema, value) ==
  Apply(m, ParseOptionWith(schema), value)

\* a faulty variant: the value is validated first, the nullish test comes after
parseNullableOption_ParseFirst(m, schema, value) ==
  CHOOSE out \in
    {IF LooseNull(value) THEN Return(r, none) ELSE r :
       r \in {Apply(m, ParseOptionWith(schema), value)}} : TRUE

parseNullableOption(m, schema, value) ==
  CHOOSE out \in
    {flatMap(r, ParseOptionWith(schema), r.ret) : r \in {fromNullable(m, value)}} : TRUE

\* ------------------------------------------------------------------ pipe
\* A step of a chain is a unary function: a library function applied to its
\* callback (map(f), flatMapEither(f), ...) or a plain function (op "call").
Step(op, cb) == [op |-> op, cb |-> cb]

Invoke(m, fn, acc) ==
  CASE fn.op = "map" -> map(m, fn.cb, acc)
    [] fn.op = "flatMap" -> flatMap(m, fn.cb, acc)
    [] fn.op = "mapEither" -> mapEither(m, fn.cb, acc)
    [] fn.op = "flatMapEither" -> flatMapEither(m, fn.cb, acc)
    [] fn.op = "call" -> Body(m, fn.cb, acc)

RECURSIVE reduce_Capped(_, _, _, _)
\* a faulty variant: only the seven functions of the widest overload are applied
reduce_Capped(m, fns, i, acc) ==
  IF i > Len(fns) \/ i > 7
  THEN Return(m, acc)
  ELSE CHOOSE out \in
         {reduce_Capped([r EXCEPT !.trace = Append(@, [i |-> i, arg |-> acc, ret |-> r.ret])],
                        fns, i + 1, r.ret) : r \in {Invoke(m, fns[i], acc)}} : TRUE

RECURSIVE reduce(_, _, _, _)
\* fns.reduce((acc, fn) => fn(acc), value)
reduce(m, fns, i, acc) ==
  IF i > Len(fns)
  THEN Return(m, acc)
  ELSE CHOOSE out \in
         {reduce([r EXCEPT !.trace = Append(@, [i |-> i, arg |-> acc, ret |-> r.ret])],
                 fns, i + 1, r.ret) : r \in {Invoke(m, fns[i], acc)}} : TRUE

pipe(m, value, fns) == reduce(m, fns, 1, value)


\* ------------------------------------------------------------ the inputs
Refs(h) == {Ref(a) : a \in 1..Len(h)}
Values(h) == Prims \cup Refs(h)
Options(h) == {o \in Refs(h) : Tag(h, o) \in {"Some", "None"}}
Eithers(h) == {e \in Refs(h) : Tag(h, e) \in {"Left", "Right"}}

\* the lambdas a => flatMap(g)(f(a)) over the Option-returning callbacks
OptionFnNames == {"some", "fromNullable", "getUserProfile"}
Kleislis == {Kleisli(f, g) : f \in OptionFnNames, g \in OptionFnNames}

\* the lambdas a => some(f(a)) and a => right(f(a)) over callbacks of the model
SomeOfs == {SomeOf("identity"), SomeOf("double"), SomeOf("fromNullable")}
RightOfs == {RightOf("identity"), RightOf("double")}

\* callbacks by what they return
PlainFns == {Cb("identity"), Cb("double")}
OptionFns == {Cb("some"), Cb("fromNullable"), Cb("getUserProfile")}
EitherFns == {Cb("right"), Cb("validateRange"), Cb("parseNumber")}
NoCb == Cb("")

\* the values handed to the validators
ParseInputs == {Null, Undef, Num(0), Num(5), Str(""), Str("x"), Obj(1), Obj(2), Obj(3)}

\* fallbacks, as in getOrElse(0) and getOrElse("Unknown")
Fallbacks == {Num(0), Str("Unknown")}

\* the strings handed to parseInt: integers, a string that starts with one,
\* and strings that hold no number
IntInputs == {Str("42"), Str("7"), Str("12px"), Str("abc"), Str("")}

\* the functions composed: addOne and multiplyByTwo of the doc example, and
\* identity
ComposeFns == {Cb("inc"), Cb("double"), Cb("identity")}

\* the binary functions of the doc examples, the curried function of the
\* uncurry example, and their arguments
BinaryFns == {Cb("add"), Cb("multiply")}
CurriedFns == {Cb("curriedAdd")}
BinArgs == {Num(2), Num(3), Str("a"), Str("b")}

\* the steps of the chains of fp-examples.ts
OptionSteps ==
  {Step("map", Cb("double")), Step("flatMap", Cb("fromNullable")),
   Step("flatMap", Cb("getUserProfile"))}
EitherSteps ==
  {Step("mapEither", Cb("double")), Step("mapEither", Cb("parseNumber")),
   Step("flatMapEither", Cb("parseNumber")), Step("flatMapEither", Cb("validateRange"))}
PlainSteps == {Step("call", Cb("double")), Step("call", Cb("inc"))}

\* the values handed to the plain chains: every primitive but the string
PipeInputs == {v \in Prims : v.k # "str"}

Chains(S, n) == UNION {[1..k -> S] : k \in 0..n}

\* ------------------------------------------------------------- the state
\* the machine a call starts from: the heap as it is, empty logs
Start == [heap |-> heap, calls |-> <<>>, trace |-> <<>>, ret |-> Undef]

\* the call made: the operation, its callback, its input, its fallback value,
\* the functions of a pipe chain, and the second callback of a match
Call(op, cb, arg, fb, fns) ==
  [op |-> op, cb |-> cb, arg |-> arg, fb |-> fb, fns |-> fns, cb2 |-> NoCb]

Call2(op, onAbsent, onPresent, arg) ==
  [op |-> op, cb |-> onPresent, arg |-> arg, fb |-> Undef, fns |-> <<>>, cb2 |-> onAbsent]

\* the call has run: its effects and its result become the state
Done(c, r, next) ==
  /\ heap' = r.heap
  /\ calls' = r.calls
  /\ trace' = r.trace
  /\ ret' = r.ret
  /\ call' = c
  /\ pc' = next

\* A run is one use of the library: it builds its inputs with the
\* constructors, then makes one call of an operation (which may be a pipe
\* chain of many).  The functions keep no state between calls.
CanCall == pc = "build" /\ Len(heap) <= MaxHeap

Init ==
  /\ heap = <<NoneObj>>
  /\ calls = <<>>
  /\ trace = <<>>
  /\ ret = Undef
  /\ call = Call("load", NoCb, Undef, Undef, <<>>)
  /\ pc = "build"

\* ----------------------------------------------------------- the actions
Some ==
  /\ CanCall
  /\ \E v \in Values(heap) :
       Done(Call("some", NoCb, v, Undef, <<>>), some(Start, v), "build")

Left ==
  /\ CanCall
  /\ \E v \in Values(heap) :
       Done(Call("left", NoCb, v, Undef, <<>>), left(Start, v), "build")

Right ==
  /\ CanCall
  /\ \E v \in Values(heap) :
       Done(Call("right", NoCb, v, Undef, <<>>), right(Start, v), "build")

FromNullable ==
  /\ CanCall
  /\ \E v \in Values(heap) :
       Done(Call("fromNullable", NoCb, v, Undef, <<>>), fromNullable(Start, v), "done")

Map ==
  /\ CanCall
  /\ \E f \in PlainFns \cup OptionFns, o \in Options(heap) :
       Done(Call("map", f, o, Undef, <<>>), map(Start, f, o), "done")

FlatMap ==
  /\ CanCall
  /\ \E f \in OptionFns \cup Kleislis \cup SomeOfs, o \in Options(heap) :
       Done(Call("flatMap", f, o, Undef, <<>>), flatMap(Start, f, o), "done")

GetOrElse ==
  /\ CanCall
  /\ \E fb \in Fallbacks, o \in Options(heap) :
       Done(Call("getOrElse", NoCb, o, fb, <<>>), getOrElse(Start, fb, o), "done")

GetOrElseLazy ==
  /\ CanCall
  /\ \E fb \in Fallbacks, o \in Options(heap) :
       Done(Call("getOrElseLazy", constant(fb), o, fb, <<>>),
            getOrElseLazy(Start, constant(fb), o), "done")

\* match(() => "User not found", onSome), as _displayUser
Match ==
  /\ CanCall
  /\ \E f \in PlainFns \cup OptionFns, o \in Options(heap) :
       Done(Call2("match", constant(Str("User not found")), f, o),
            match(Start, constant(Str("User not found")), f, o), "done")

MapEither ==
  /\ CanCall
  /\ \E f \in PlainFns, e \in Eithers(heap) :
       Done(Call("mapEither", f, e, Undef, <<>>), mapEither(Start, f, e), "done")

MapLeft ==
  /\ CanCall
  /\ \E f \in PlainFns, e \in Eithers(heap) :
       Done(Call("mapLeft", f, e, Undef, <<>>), mapLeft(Start, f, e), "done")

GetOrElseEither ==
  /\ CanCall
  /\ \E fb \in Fallbacks, e \in Eithers(heap) :
       Done(Call("getOrElseEither", NoCb, e, fb, <<>>), getOrElseEither(Start, fb, e), "done")

GetOrElseLazyEither ==
  /\ CanCall
  /\ \E f \in PlainFns, e \in Eithers(heap) :
       Done(Call("getOrElseLazyEither", f, e, Undef, <<>>),
            getOrElseLazyEither(Start, f, e), "done")

\* matchEither(() => none, (user) => some(user)), as _getUserOption
MatchEither ==
  /\ CanCall
  /\ \E onLeft \in {Cb("getUserProfile"), Cb("identity")}, onRight \in {Cb("some"), Cb("double")},
        e \in Eithers(heap) :
       Done(Call2("matchEither", onLeft, onRight, e),
            matchEither(Start, onLeft, onRight, e), "done")

FlatMapEither ==
  /\ CanCall
  /\ \E f \in EitherFns \cup RightOfs, e \in Eithers(heap) :
       Done(Call("flatMapEither", f, e, Undef, <<>>), flatMapEither(Start, f, e), "done")

\* the call of an adapter function with a schema and a value
Parse(op, schema, value) ==
  [op |-> op, cb |-> Cb("safeParse"), arg |-> value, fb |-> Str(schema),
   fns |-> <<>>, cb2 |-> NoCb]

ParseOption ==
  /\ CanCall
  /\ \E schema \in Schemas, v \in ParseInputs :
       Done(Parse("parseOption", schema, v), parseOption(Start, schema, v), "done")

ParseEither ==
  /\ CanCall
  /\ \E schema \in Schemas, v \in ParseInputs :
       Done(Parse("parseEither", schema, v), parseEither(Start, schema, v), "done")

ParseEitherMessage ==
  /\ CanCall
  /\ \E schema \in Schemas, v \in ParseInputs :
       Done(Parse("parseEitherMessage", schema, v),
            parseEitherMessage(Start, schema, v), "done")

CreateOptionValidator ==
  /\ CanCall
  /\ \E schema \in Schemas, v \in ParseInputs :
       Done(Parse("createOptionValidator", schema, v),
            createOptionValidator(Start, schema, v), "done")

CreateEitherValidator ==
  /\ CanCall
  /\ \E schema \in Schemas, v \in ParseInputs :
       Done(Parse("createEitherValidator", schema, v),
            createEitherValidator(Start, schema, v), "done")

ParseNullableOption ==
  /\ CanCall
  /\ \E schema \in Schemas, v \in ParseInputs :
       Done(Parse("parseNullableOption", schema, v),
            parseNullableOption(Start, schema, v), "done")

\* const count = fromNullable(parseInt(input))
\* const safeCount = getOrElse(0)(count)
SafeCount ==
  /\ CanCall
  /\ \E input \in IntInputs :
       Done(Call("safeCount", NoCb, input, Num(0), <<>>),
            CHOOSE out \in
              {getOrElse(count, Num(0), count.ret) :
                 count \in {fromNullable(Start, parseInt(input))}} : TRUE,
            "done")

\* compose(f, g)(x): cb is f, cb2 is g
Compose ==
  /\ CanCall
  /\ \E f \in ComposeFns, g \in ComposeFns, x \in PipeInputs :
       Done([Call("compose", f, x, Undef, <<>>) EXCEPT !.cb2 = g],
            compose(Start, f, g, x), "done")

\* curry(f)(a)(b), for a binary function and for an uncurried curried one
Curry ==
  /\ CanCall
  /\ \E f \in BinaryFns \cup {Uncurried(g) : g \in CurriedFns}, a \in BinArgs, b \in BinArgs :
       Done(Call("curry", f, a, b, <<>>), CallCurried(Start, Curried(f), a, b), "done")

\* uncurry(f)(a, b), for a curried function and for a curried binary one
Uncurry ==
  /\ CanCall
  /\ \E f \in CurriedFns \cup {Curried(g) : g \in BinaryFns}, a \in BinArgs, b \in BinArgs :
       Done(Call("uncurry", f, a, b, <<>>), Apply2(Start, Uncurried(f), a, b), "done")

\* a chain over an Option or an Either, as _getUserData and _complexOperation
PipeChain ==
  /\ CanCall
  /\ \E v \in Options(heap) \cup Eithers(heap) :
       \E fns \in Chains(IF v \in Options(heap) THEN OptionSteps ELSE EitherSteps, MaxChain) :
         Done(Call("pipe", NoCb, v, Undef, fns), pipe(Start, v, fns), "done")

\* a chain of plain functions over a plain value
PipePlain ==
  /\ CanCall
  /\ \E v \in PipeInputs :
       \E fns \in Chains(PlainSteps, MaxPipe) :
         Done(Call("pipe", NoCb, v, Undef, fns), pipe(Start, v, fns), "done")

Next ==
  \/ Some
  \/ Left
  \/ Right
  \/ FromNullable
  \/ Map
  \/ FlatMap
  \/ GetOrElse
  \/ GetOrElseLazy
  \/ Match
  \/ MapEither
  \/ MapLeft
  \/ GetOrElseEither
  \/ GetOrElseLazyEither
  \/ MatchEither
  \/ FlatMapEither
  \/ PipeChain
  \/ ParseOption
  \/ ParseEither
  \/ ParseEitherMessage
  \/ CreateOptionValidator
  \/ CreateEitherValidator
  \/ ParseNullableOption
  \/ SafeCount
  \/ Compose
  \/ Curry
  \/ Uncurry

Spec == Init /\ [][Next]_vars

\* the plain chains of pipe, on their own
NextPipe == PipePlain

SpecPipe == Init /\ [][NextPipe]_vars


\* =================================================================== claims
\* what a chain step hands to the next one, given what its callback returned:
\* map and mapEither wrap it, flatMap and flatMapEither return it as it is
Wraps(fn) == fn.op \in {"map", "mapEither"}
StepResult(i) == IF Wraps(call.fns[i]) THEN Payload(heap, trace[i].ret) ELSE trace[i].ret

\* the callbacks of a chain ran for the steps 1..Len(calls), once each, in
\* order, each given the payload the step before it produced
CalledInOrder ==
  /\ Len(calls) <= Len(call.fns)
  /\ \A i \in 1..Len(calls) :
       /\ calls[i].fn = call.fns[i].cb
       /\ calls[i].arg = Payload(heap, IF i = 1 THEN call.arg ELSE trace[i - 1].ret)
       /\ calls[i].ret = StepResult(i)

\* C1: flatMapEither(f)(left(e)) returns the very Left it was given (the same
\* instance, the same payload) and f is not invoked.
C1_FlatMapEitherLeft ==
  (call.op = "flatMapEither" /\ isLeft(heap, call.arg)) =>
    /\ ret = call.arg
    /\ calls = <<>>

C1_Witness ==
  /\ call.op = "flatMapEither"
  /\ isLeft(heap, call.arg)
  /\ call.cb = Cb("parseNumber")
  /\ Payload(heap, call.arg) = Num(5)

EitherChain == call.op = "pipe" /\ Tag(heap, call.arg) \in {"Left", "Right"}

\* the step function of an Either chain that returned a Left
ReturnsLeft(i) == isLeft(heap, calls[i].ret)

\* the flatMapEither step of an Either chain whose function returned a Left
FailsAt(i) == call.fns[i].op = "flatMapEither" /\ ReturnsLeft(i)

\* what C2 says of a chain, given the set F of the calls that count as a
\* step function having returned a Left
EitherChainStopsAt(F) ==
  EitherChain =>
    /\ CalledInOrder
    /\ isLeft(heap, call.arg) => (ret = call.arg /\ calls = <<>>)
    /\ \A i \in F : i = Len(calls) /\ ret = calls[i].ret
    /\ (isRight(heap, call.arg) /\ F = {}) =>
         /\ Len(calls) = Len(call.fns)
         /\ isRight(heap, ret)
         /\ ret = (IF call.fns = <<>> THEN call.arg ELSE trace[Len(trace)].ret)

\* C2 as stated: in a chain of flatMapEither and mapEither steps, once some
\* step function (of either kind of step) returns a Left, that Left is the
\* result of the chain and no later step function is invoked.
C2_Original == EitherChainStopsAt({i \in 1..Len(calls) : ReturnsLeft(i)})

\* C2, amended: in a chain of flatMapEither and mapEither steps the first Left
\* (the initial value, or the Left the function of a flatMapEither step
\* returned) is the result of the whole chain, the same instance, and no step
\* function after it is invoked; with no such failure every step function is
\* invoked once, in order, and the result is the Right of the last step.  A
\* Left returned by the function of a mapEither step is wrapped in a Right
\* and the chain goes on.
C2_EitherChainShortCircuits == EitherChainStopsAt({i \in 1..Len(calls) : FailsAt(i)})

\* a step fails in the middle of a chain: steps run before it, steps follow it
C2_Witness ==
  /\ EitherChain
  /\ Len(call.fns) = 3
  /\ Len(calls) = 2
  /\ FailsAt(2)
  /\ call.fns[3].op = "flatMapEither"

OptionChain == call.op = "pipe" /\ Tag(heap, call.arg) \in {"Some", "None"}

\* the step of an Option chain whose function returned none
AbsentAt(i) == call.fns[i].op = "flatMap" /\ isNone(heap, calls[i].ret)

\* C3: in a chain of flatMap and map steps, once the initial value is none or a
\* flatMap step function returns none, the result of the chain is none and no
\* later step function is invoked.
C3_OptionChainShortCircuits ==
  OptionChain =>
    /\ CalledInOrder
    /\ isNone(heap, call.arg) => (ret = none /\ calls = <<>>)
    /\ \A i \in 1..Len(calls) :
         AbsentAt(i) => (i = Len(calls) /\ ret = none)

C3_Witness ==
  /\ OptionChain
  /\ Len(call.fns) = 3
  /\ Len(calls) = 2
  /\ AbsentAt(2)
  /\ call.fns[3].op = "map"

\* C4: pipe(value, f1..fn) invokes each fi once, in the order f1..fn, f1 with
\* value and fi with the result of f(i-1), and returns the result of fn; with no
\* function it returns value and invokes nothing; for every n, also above 7.
C4_PipeThreads ==
  call.op = "pipe" =>
    /\ Len(trace) = Len(call.fns)
    /\ \A i \in 1..Len(trace) :
         /\ trace[i].i = i
         /\ trace[i].arg = (IF i = 1 THEN call.arg ELSE trace[i - 1].ret)
         /\ trace[i].ret = Body(Start, call.fns[i].cb, trace[i].arg).ret
    /\ ret = (IF call.fns = <<>> THEN call.arg ELSE trace[Len(trace)].ret)
    /\ (call.arg = Num(5) /\ call.fns = <<Step("call", Cb("double")), Step("call", Cb("inc"))>>)
         => ret = Num(11)

C4_Witness ==
  /\ call.op = "pipe"
  /\ Len(call.fns) = 8
  /\ call.fns[1] = Step("call", Cb("inc"))
  /\ \A i \in 2..8 : call.fns[i] = Step("call", Cb("double"))
  /\ call.arg = Num(5)
  /\ ret = Num(768)

\* C5: fromNullable(v) is none exactly when v is null or undefined and some(v)
\* for every other value, the falsy 0, "", false and NaN included.
C5_FromNullable ==
  call.op = "fromNullable" =>
    /\ (ret = none) <=> (call.arg \in {Null, Undef})
    /\ (call.arg \notin {Null, Undef}) =>
         (isSome(heap, ret) /\ Payload(heap, ret) = call.arg)

C5_Witness ==
  /\ call.op = "fromNullable"
  /\ call.arg = NaN
  /\ isSome(heap, ret)
  /\ Payload(heap, ret) = NaN


\* C6: no operation mutates an Option or an Either it is given: every instance
\* on the heap, the shared none included, keeps its tag and its payload over
\* every call; calls only add instances.
C6_NoMutation ==
  [][/\ Len(heap') >= Len(heap)
     /\ \A a \in 1..Len(heap) : heap'[a] = heap[a]
     /\ heap'[NoneAddr] = NoneObj]_vars

\* a call has transformed an instance built before it into a new instance
C6_Witness ==
  /\ call.op = "map"
  /\ call.cb = Cb("double")
  /\ heap[call.arg.n] = SomeObj(Num(5))
  /\ ret # call.arg
  /\ heap[ret.n] = SomeObj(Num(10))

RECURSIVE SameValue(_, _, _)
\* equality of two values by content: the same tag and the same payload
SameValue(h, a, b) ==
  IF a.k = "ref" /\ b.k = "ref"
  THEN /\ h[a.n].tag = h[b.n].tag
       /\ h[a.n].issues = h[b.n].issues
       /\ SameValue(h, h[a.n].val, h[b.n].val)
  ELSE a = b

\* C7: map(identity)(opt) equals opt and mapEither(identity)(e) equals e, by
\* tag and by payload.
C7_FunctorIdentity ==
  (call.op \in {"map", "mapEither"} /\ call.cb = Cb("identity")) =>
    /\ Tag(heap, ret) = Tag(heap, call.arg)
    /\ SameValue(heap, ret, call.arg)

C7_Witness ==
  /\ call.op = "map"
  /\ call.cb = Cb("identity")
  /\ isSome(heap, call.arg)
  /\ ret # call.arg
  /\ Payload(heap, ret) = Payload(heap, call.arg)

\* flatMap(g)(flatMap(f)(opt)), run from the heap as it is
Nested(f, g, opt) ==
  CHOOSE out \in {flatMap(r, Cb(g), r.ret) : r \in {flatMap(Start, Cb(f), opt)}} : TRUE

\* C8: flatMap(a => flatMap(g)(f(a)))(opt) equals flatMap(g)(flatMap(f)(opt)),
\* for an opt that is present and for one that is absent.
C8_FlatMapAssociative ==
  (call.op = "flatMap" /\ call.cb.name = "kleisli") =>
    LET lhs == Nested(call.cb.f, call.cb.g, call.arg)
    IN SameValue(lhs.heap, lhs.ret, ret)

C8_Witness ==
  /\ call.op = "flatMap"
  /\ call.cb = Kleisli("fromNullable", "some")
  /\ isSome(heap, call.arg)
  /\ isSome(heap, ret)
  /\ Len(calls) = 3

\* C9: flatMap(some)(opt) equals opt: none stays none, some(v) gives some(v).
C9_FlatMapSome ==
  (call.op = "flatMap" /\ call.cb = Cb("some")) =>
    /\ isNone(heap, call.arg) => ret = none
    /\ isSome(heap, call.arg) =>
         (isSome(heap, ret) /\ Payload(heap, ret) = Payload(heap, call.arg))

C9_Witness ==
  /\ call.op = "flatMap"
  /\ call.cb = Cb("some")
  /\ isSome(heap, call.arg)
  /\ Payload(heap, ret) = Null

\* C10: getOrElseLazy(fallback)(opt) does not invoke fallback when opt is a
\* Some and returns the payload; it invokes fallback once when opt is none and
\* returns its result; either way it returns what getOrElse returns when given
\* the result of fallback.
C10_GetOrElseLazy ==
  call.op = "getOrElseLazy" =>
    /\ isSome(heap, call.arg) => (calls = <<>> /\ ret = Payload(heap, call.arg))
    /\ isNone(heap, call.arg) =>
         /\ Len(calls) = 1
         /\ calls[1].fn = call.cb
         /\ ret = calls[1].ret
    /\ ret = getOrElse(Start, Body(Start, call.cb, Undef).ret, call.arg).ret

C10_Witness ==
  /\ call.op = "getOrElseLazy"
  /\ isSome(heap, call.arg)
  /\ Payload(heap, call.arg) = Undef
  /\ ret = Undef
  /\ calls = <<>>

\* C11: getOrElse(fallback)(some(v)) returns v for every payload v, the nullish
\* and the falsy ones included, and getOrElse(fallback)(none) returns fallback;
\* nothing is invoked.
C11_GetOrElse ==
  call.op = "getOrElse" =>
    /\ isSome(heap, call.arg) => ret = Payload(heap, call.arg)
    /\ isNone(heap, call.arg) => ret = call.fb
    /\ calls = <<>>
    /\ (call.fb = Num(0) /\ heap[call.arg.n] = SomeObj(Num(5))) => ret = Num(5)

\* a Some whose payload is null, unwrapped with the fallback 0
C11_Witness ==
  /\ call.op = "getOrElse"
  /\ isSome(heap, call.arg)
  /\ Payload(heap, call.arg) = Null
  /\ call.fb = Num(0)
  /\ ret = Null

\* C12: match(onNone, onSome)(opt) invokes onSome with the payload, once, and
\* never onNone when opt is a Some, and onNone, once, and never onSome when opt
\* is none; matchEither(onLeft, onRight)(e) invokes onRight with the success
\* payload and never onLeft when e is a Right, and onLeft with the error
\* payload and never onRight when e is a Left.  The result is what the invoked
\* branch returned.
C12_MatchOneBranch ==
  /\ call.op = "match" =>
       /\ Len(calls) = 1
       /\ ret = calls[1].ret
       /\ isSome(heap, call.arg) =>
            (calls[1].fn = call.cb /\ calls[1].arg = Payload(heap, call.arg))
       /\ isNone(heap, call.arg) => calls[1].fn = call.cb2
  /\ call.op = "matchEither" =>
       /\ Len(calls) = 1
       /\ ret = calls[1].ret
       /\ calls[1].arg = Payload(heap, call.arg)
       /\ isRight(heap, call.arg) => calls[1].fn = call.cb
       /\ isLeft(heap, call.arg) => calls[1].fn = call.cb2

\* the two branches are different functions and the absent one was taken
C12_Witness ==
  /\ call.op = "match"
  /\ isNone(heap, call.arg)
  /\ call.cb = Cb("double")
  /\ call.cb2 = constant(Str("User not found"))
  /\ ret = Str("User not found")

\* C13: mapEither(f)(right(a)) is right(f(a)) with f invoked once, with a;
\* mapEither(f)(l) for a Left l is l itself, the same instance, and f is not
\* invoked.
C13_MapEither ==
  call.op = "mapEither" =>
    /\ isRight(heap, call.arg) =>
         /\ Len(calls) = 1
         /\ calls[1].fn = call.cb
         /\ calls[1].arg = Payload(heap, call.arg)
         /\ calls[1].ret = Body(Start, call.cb, Payload(heap, call.arg)).ret
         /\ isRight(heap, ret)
         /\ Payload(heap, ret) = calls[1].ret
    /\ isLeft(heap, call.arg) => (ret = call.arg /\ calls = <<>>)

C13_Witness ==
  /\ call.op = "mapEither"
  /\ call.cb = Cb("double")
  /\ heap[call.arg.n] = LeftObj(Num(5))
  /\ ret = call.arg

\* C14: mapLeft(f)(left(e)) is left(f(e)) with f invoked once, with e;
\* mapLeft(f)(r) for a Right r is r, unchanged, and f is not invoked; a Left
\* stays a Left and a Right stays a Right.
C14_MapLeft ==
  call.op = "mapLeft" =>
    /\ Tag(heap, ret) = Tag(heap, call.arg)
    /\ isLeft(heap, call.arg) =>
         /\ Len(calls) = 1
         /\ calls[1].fn = call.cb
         /\ calls[1].arg = Payload(heap, call.arg)
         /\ calls[1].ret = Body(Start, call.cb, Payload(heap, call.arg)).ret
         /\ Payload(heap, ret) = calls[1].ret
    /\ isRight(heap, call.arg) => (ret = call.arg /\ calls = <<>>)

C14_Witness ==
  /\ call.op = "mapLeft"
  /\ call.cb = Cb("double")
  /\ heap[call.arg.n] = LeftObj(Num(5))
  /\ ret # call.arg
  /\ heap[ret.n] = LeftObj(Num(10))

\* C15: getOrElseEither(fallback)(e) is the success payload for a Right and
\* fallback for a Left; getOrElseLazyEither(fallback)(e) is the success payload
\* for a Right, fallback not invoked, and for left(err) invokes fallback once,
\* with err, and returns its result.
C15_GetOrElseEither ==
  /\ call.op = "getOrElseEither" =>
       /\ calls = <<>>
       /\ isRight(heap, call.arg) => ret = Payload(heap, call.arg)
       /\ isLeft(heap, call.arg) => ret = call.fb
  /\ call.op = "getOrElseLazyEither" =>
       /\ isRight(heap, call.arg) => (calls = <<>> /\ ret = Payload(heap, call.arg))
       /\ isLeft(heap, call.arg) =>
            /\ Len(calls) = 1
            /\ calls[1].fn = call.cb
            /\ calls[1].arg = Payload(heap, call.arg)
            /\ ret = calls[1].ret
            /\ ret = Body(Start, call.cb, Payload(heap, call.arg)).ret

\* the fallback computed its result from the error it was given
C15_Witness ==
  /\ call.op = "getOrElseLazyEither"
  /\ call.cb = Cb("double")
  /\ heap[call.arg.n] = LeftObj(Num(5))
  /\ ret = Num(10)

\* the schema of a call of the adapter, and what its safeParse answered
Schema == call.fb.s
ParseOps == {"parseOption", "parseEither", "parseEitherMessage"}
Failed == Tag(heap, calls[1].ret) = "ZodError"

\* C16: parseOption, parseEither and parseEitherMessage agree on the outcome
\* for every schema and value: a success of safeParse gives some(d), right(d)
\* and right(d) with d the data of safeParse, a failure gives none, a Left and a
\* Left; each makes one safeParse call, with the value.
C16_ParseAgree ==
  call.op \in ParseOps =>
    LET o == parseOption(Start, Schema, call.arg)
        e == parseEither(Start, Schema, call.arg)
        s == parseEitherMessage(Start, Schema, call.arg)
        d == Data(Schema, call.arg)
    IN /\ Len(calls) = 1
       /\ calls[1].fn = [name |-> "safeParse", f |-> Schema, g |-> "", v |-> Undef]
       /\ calls[1].arg = call.arg
       /\ Failed <=> (Issues(Schema, call.arg) # <<>>)
       /\ ~Failed =>
            /\ calls[1].ret = d
            /\ Tag(heap, ret) = (IF call.op = "parseOption" THEN "Some" ELSE "Right")
            /\ Payload(heap, ret) = d
            /\ isSome(o.heap, o.ret) /\ Payload(o.heap, o.ret) = d
            /\ isRight(e.heap, e.ret) /\ Payload(e.heap, e.ret) = d
            /\ isRight(s.heap, s.ret) /\ Payload(s.heap, s.ret) = d
       /\ Failed =>
            /\ IF call.op = "parseOption" THEN ret = none ELSE isLeft(heap, ret)
            /\ o.ret = none
            /\ isLeft(e.heap, e.ret)
            /\ isLeft(s.heap, s.ret)

\* a success whose data is not the value handed in: Number(null) is 0
C16_Witness ==
  /\ call.op = "parseOption"
  /\ Schema = "coerce"
  /\ call.arg = Null
  /\ isSome(heap, ret)
  /\ Payload(heap, ret) = Num(0)

\* two runs made the same calls: the same functions with the same arguments
SameCalls(a, b) ==
  /\ Len(a) = Len(b)
  /\ \A i \in 1..Len(a) : a[i].fn = b[i].fn /\ a[i].arg = b[i].arg

\* C17: on failure parseEither(schema, value) is left(err) with err the error
\* object safeParse returned, the same instance with all its issues;
\* createEitherValidator(schema)(value) gives what parseEither(schema, value)
\* gives and createOptionValidator(schema)(value) what parseOption(schema,
\* value) gives, for every value.
C17_ParseEitherError ==
  /\ (call.op \in {"parseEither", "createEitherValidator"} /\ Failed) =>
       /\ isLeft(heap, ret)
       /\ Payload(heap, ret) = calls[1].ret
       /\ heap[calls[1].ret.n] = ZodErrorObj(Issues(Schema, call.arg))
  /\ call.op = "createEitherValidator" =>
       LET e == parseEither(Start, Schema, call.arg)
       IN SameCalls(e.calls, calls) /\ SameValue(e.heap, e.ret, ret)
  /\ call.op = "createOptionValidator" =>
       LET o == parseOption(Start, Schema, call.arg)
       IN SameCalls(o.calls, calls) /\ SameValue(o.heap, o.ret, ret)

\* a failure with two issues, both kept in the error the Left holds
C17_Witness ==
  /\ call.op = "parseEither"
  /\ Schema = "UserSchema"
  /\ call.arg = Obj(2)
  /\ isLeft(heap, ret)
  /\ Len(heap[Payload(heap, ret).n].issues) = 2

\* one issue as text: its path segments joined with ".", ": ", its message
Rendered(issue) == join(issue.path, ".") \o ": " \o issue.message

\* C18: on failure parseEitherMessage(schema, value) is left(s), s one string
\* made of all the issues of the validator in the order reported, each as
\* "<dotted.path>: <message>", separated by ", "; for a failing field id the
\* string holds the path "id".
C18_ErrorMessage ==
  (call.op = "parseEitherMessage" /\ Failed) =>
    LET found == heap[calls[1].ret.n].issues
        s == Payload(heap, ret)
    IN /\ isLeft(heap, ret)
       /\ s = Str(join([i \in 1..Len(found) |-> Rendered(found[i])], ", "))
       /\ (Schema = "UserSchema" /\ call.arg = Obj(2)) =>
            s = Str("id: Expected number, received string, name: Required")
       /\ (Schema = "ProfileSchema" /\ call.arg = Obj(3)) =>
            s = Str("user.id: Expected number, received string, user.name: Required")
       /\ (Schema = "nullish" /\ call.arg = Str("x")) =>
            s = Str(": Expected number, received string")

\* two issues, each with a path of two segments
C18_Witness ==
  /\ call.op = "parseEitherMessage"
  /\ Schema = "ProfileSchema"
  /\ call.arg = Obj(3)
  /\ Len(heap[calls[1].ret.n].issues) = 2
  /\ Len(heap[calls[1].ret.n].issues[1].path) = 2
  /\ isLeft(heap, ret)

\* C19: parseNullableOption(schema, value) is none for null and for undefined
\* whatever the schema (the schema is not asked), and for every other value
\* what parseOption(schema, value) is; a failed validation gives the same none
\* as an absent input.
C19_ParseNullableOption ==
  call.op = "parseNullableOption" =>
    /\ call.arg \in {Null, Undef} => (ret = none /\ calls = <<>>)
    /\ call.arg \notin {Null, Undef} =>
         LET o == parseOption(Start, Schema, call.arg)
         IN /\ SameValue(o.heap, o.ret, ret)
            /\ Len(calls) = 2
            /\ calls[1].fn = ParseOptionWith(Schema)
            /\ SameCalls(o.calls, Tail(calls))
            /\ (Issues(Schema, call.arg) # <<>>) => ret = none

\* null handed in with a schema that accepts null
C19_Witness ==
  /\ call.op = "parseNullableOption"
  /\ Schema = "nullish"
  /\ call.arg = Null
  /\ Issues(Schema, call.arg) = <<>>
  /\ ret = none
  /\ calls = <<>>

\* C20: for a schema requiring { id: number, name: string },
\* parseEitherMessage(schema, { id: "invalid" }) is
\* left("Expected number, received string"), the issue message itself.
C20_DocExample ==
  (call.op = "parseEitherMessage" /\ Schema = "UserSchema" /\ call.arg = Obj(2)) =>
    /\ isLeft(heap, ret)
    /\ Payload(heap, ret) = Str("Expected number, received string")

\* what the call of the example returns
C20_Witness ==
  /\ call.op = "parseEitherMessage"
  /\ Schema = "UserSchema"
  /\ Records[call.arg.n].id = Str("invalid")
  /\ isLeft(heap, ret)
  /\ Payload(heap, ret) = Str("id: Expected number, received string, name: Required")

\* C21: with count = fromNullable(parseInt(input)), getOrElse(0)(count) is the
\* parsed number if parsing succeeded and 0 if parsing failed (parseInt
\* returned NaN).
C21_DocExample ==
  call.op = "safeCount" =>
    ret = (IF parseInt(call.arg) = NaN THEN Num(0) ELSE parseInt(call.arg))

\* what the example gives for a string that holds no number
C21_Witness ==
  /\ call.op = "safeCount"
  /\ call.arg = Str("abc")
  /\ isSome(heap, Ref(Len(heap)))
  /\ Payload(heap, Ref(Len(heap))) = NaN
  /\ ret = NaN

\* the operations that return an Option, and those that return an Either
OptionOps ==
  {"some", "fromNullable", "map", "flatMap", "parseOption", "createOptionValidator",
   "parseNullableOption"}
EitherOps ==
  {"left", "right", "mapEither", "mapLeft", "flatMapEither", "parseEither",
   "parseEitherMessage", "createEitherValidator"}

\* C22: of every Option built by some, none, fromNullable, map, flatMap or the
\* parse functions exactly one of isSome, isNone is true, of every Either built
\* by left, right, mapEither, mapLeft, flatMapEither or the parse functions
\* exactly one of isLeft, isRight; isSome(some(v)), isRight(right(v)),
\* isNone(none) and isLeft(left(v)) are true for every v.
C22_PredicatesPartition ==
  /\ isNone(heap, none) /\ ~isSome(heap, none)
  /\ call.op \in OptionOps => (isSome(heap, ret) <=> ~isNone(heap, ret))
  /\ call.op \in EitherOps => (isLeft(heap, ret) <=> ~isRight(heap, ret))
  /\ call.op = "some" => isSome(heap, ret)
  /\ call.op = "left" => isLeft(heap, ret)
  /\ call.op = "right" => isRight(heap, ret)
  /\ \A a \in 1..Len(heap) :
       /\ heap[a].tag \in {"Some", "None"} => (isSome(heap, Ref(a)) <=> ~isNone(heap, Ref(a)))
       /\ heap[a].tag \in {"Left", "Right"} => (isLeft(heap, Ref(a)) <=> ~isRight(heap, Ref(a)))

\* a Some that has no payload to show: some(undefined)
C22_Witness ==
  /\ call.op = "some"
  /\ call.arg = Undef
  /\ isSome(heap, ret)
  /\ ~isNone(heap, ret)

\* C23: some(v) is a Some that holds exactly v for every v, also for none,
\* for some(w), for null and for undefined (some(null) is not
\* fromNullable(null)); so map(f)(some(a)) with an f that returns an Option is
\* the nested some(f(a)), not f(a).
C23_SomeNeverFlattens ==
  /\ call.op = "some" =>
       /\ isSome(heap, ret)
       /\ Payload(heap, ret) = call.arg
       /\ ret # call.arg
       /\ ret # none
       /\ call.arg = Null => ret # fromNullable(Start, Null).ret
  /\ (call.op = "map" /\ isSome(heap, call.arg) /\ call.cb \in OptionFns) =>
       /\ isSome(heap, ret)
       /\ Payload(heap, ret) = calls[1].ret
       /\ ret # calls[1].ret
       /\ Tag(heap, Payload(heap, ret)) \in {"Some", "None"}

\* some(none) is a Some whose payload is none
C23_Witness ==
  /\ call.op = "some"
  /\ call.arg = none
  /\ isSome(heap, ret)
  /\ Payload(heap, ret) = none

\* C24: every absent Option the core produces (fromNullable of null or
\* undefined, map or flatMap of an absent Option, parseOption and
\* parseNullableOption on failure or absent input) is the one shared none;
\* no other None instance is ever allocated.
C24_SingletonNone ==
  /\ \A a \in 1..Len(heap) : heap[a].tag = "None" => a = NoneAddr
  /\ (call.op \in OptionOps /\ isNone(heap, ret)) => ret = none
  /\ (call.op = "fromNullable" /\ call.arg \in {Null, Undef}) => ret = none
  /\ (call.op \in {"map", "flatMap"} /\ isNone(heap, call.arg)) => ret = none
  /\ (call.op \in {"parseOption", "parseNullableOption"}
        /\ Issues(call.fb.s, call.arg) # <<>>) => ret = none

\* a failed validation gave the shared none although the call allocated
C24_Witness ==
  /\ call.op = "parseNullableOption"
  /\ call.arg = Obj(2)
  /\ call.fb.s = "UserSchema"
  /\ Len(calls) = 2
  /\ ret = none

\* C25: compose(f, g)(x) is f(g(x)) for every x: g is invoked first, with x,
\* f second, with what g returned, each once; and compose(f, g)(x) is
\* pipe(x, g, f).
C25_Compose ==
  call.op = "compose" =>
    LET p == pipe(Start, call.arg, <<Step("call", call.cb2), Step("call", call.cb)>>)
    IN /\ Len(calls) = 2
       /\ calls[1].fn = call.cb2
       /\ calls[1].arg = call.arg
       /\ calls[1].ret = Body(Start, call.cb2, call.arg).ret
       /\ calls[2].fn = call.cb
       /\ calls[2].arg = calls[1].ret
       /\ calls[2].ret = Body(Start, call.cb, calls[1].ret).ret
       /\ ret = calls[2].ret
       /\ ret = p.ret
       /\ \A i \in 1..2 : p.trace[i].arg = calls[i].arg /\ p.trace[i].ret = calls[i].ret
       /\ (call.cb = Cb("double") /\ call.cb2 = Cb("inc") /\ call.arg = Num(5))
            => ret = Num(12)

\* addOneThenDouble(5) of the doc example: compose(multiplyByTwo, addOne)(5)
C25_Witness ==
  /\ call.op = "compose"
  /\ call.cb = Cb("double")
  /\ call.cb2 = Cb("inc")
  /\ call.arg = Num(5)
  /\ ret = Num(12)

\* the calls of the function handed to curry or uncurry
CallsOf(f) == {i \in 1..Len(calls) : calls[i].fn = f}

\* C26: curry(f)(a)(b) is f(a, b) and uncurry(curry(f))(a, b) is f(a, b) for
\* every binary f and all a, b; curry(uncurry(g))(a)(b) is g(a)(b) for every
\* curried g.  The function is invoked once, with a first and b second.
C26_CurryUncurry ==
  /\ call.op = "curry" =>
       /\ ret = Body2(Start, call.cb, call.arg, call.fb).ret
       /\ Cardinality(CallsOf(call.cb)) = 1
       /\ \A i \in CallsOf(call.cb) : calls[i].arg = call.arg /\ calls[i].arg2 = call.fb
       /\ call.cb.name = "uncurry" =>
            ret = CallCurried(Start, Inner(call.cb), call.arg, call.fb).ret
       /\ (call.cb = Cb("add") /\ call.arg = Num(2) /\ call.fb = Num(3)) => ret = Num(5)
       /\ (call.cb = Cb("add") /\ call.arg = Str("a") /\ call.fb = Str("b")) => ret = Str("ab")
  /\ call.op = "uncurry" =>
       /\ ret = CallCurried(Start, call.cb, call.arg, call.fb).ret
       /\ Cardinality(CallsOf(call.cb)) = 1
       /\ \A i \in CallsOf(call.cb) : calls[i].arg = call.arg
       /\ call.cb.name = "curry" =>
            ret = Body2(Start, Inner(call.cb), call.arg, call.fb).ret
       /\ (call.cb = Curried(Cb("add")) /\ call.arg = Num(2) /\ call.fb = Num(3)) =>
            ret = Num(5)

\* uncurry(curry(add))("a", "b"): the order of the arguments shows
C26_Witness ==
  /\ call.op = "uncurry"
  /\ call.cb = Curried(Cb("add"))
  /\ call.arg = Str("a")
  /\ call.fb = Str("b")
  /\ ret = Str("ab")
  /\ Len(calls) = 4

\* C27: flatMap(f)(some(a)) invokes f once, with a, and returns the Option f
\* returned, the same instance; flatMapEither(f)(right(a)) invokes f once,
\* with a, and returns the Either f returned, the same instance.
C27_LeftIdentity ==
  /\ (call.op = "flatMap" /\ isSome(heap, call.arg)) =>
       /\ CallsOf(call.cb) = {1}
       /\ calls[1].arg = Payload(heap, call.arg)
       /\ ret = calls[1].ret
  /\ (call.op = "flatMapEither" /\ isRight(heap, call.arg)) =>
       /\ CallsOf(call.cb) = {1}
       /\ calls[1].arg = Payload(heap, call.arg)
       /\ ret = calls[1].ret

\* f returned a new Right and that instance is the result
C27_Witness ==
  /\ call.op = "flatMapEither"
  /\ call.cb = Cb("parseNumber")
  /\ heap[call.arg.n] = RightObj(Num(5))
  /\ ret = calls[1].ret
  /\ ret = Ref(Len(heap))
  /\ heap[ret.n] = RightObj(Num(5))

\* the calls of schema.safeParse a run made
SafeParseCalls == {i \in 1..Len(calls) : calls[i].fn.name = "safeParse"}

\* C28: parseNullableOption(schema, value) invokes schema.safeParse not at all
\* when value is null or undefined and once otherwise; parseOption,
\* parseEither and parseEitherMessage invoke it once per call; every
\* invocation is of the schema handed in, with the value handed in.
C28_SafeParseCalls ==
  /\ call.op = "parseNullableOption" =>
       Cardinality(SafeParseCalls) = (IF call.arg \in {Null, Undef} THEN 0 ELSE 1)
  /\ call.op \in ParseOps => Cardinality(SafeParseCalls) = 1
  /\ call.op \in ParseOps \cup {"parseNullableOption"} =>
       \A i \in SafeParseCalls : calls[i].fn.f = Schema /\ calls[i].arg = call.arg

\* undefined handed in with a schema that would report an issue for it
C28_Witness ==
  /\ call.op = "parseNullableOption"
  /\ Schema = "UserSchema"
  /\ call.arg = Undef
  /\ Issues(Schema, call.arg) # <<>>
  /\ SafeParseCalls = {}
  /\ ret = none

\* the safeParse of the run reported a failure
ValidationFailed == \E i \in SafeParseCalls : Tag(heap, calls[i].ret) = "ZodError"

\* C29: whenever safeParse succeeds parseOption returns some(data), also for
\* data that is null or undefined, and parseNullableOption returns some(data)
\* for a value that is not nullish whose data is null or undefined; none is
\* returned only for a failed validation or, by parseNullableOption, for a
\* nullish value.
C29_NoNullableCollapse ==
  /\ call.op \in {"parseOption", "createOptionValidator"} =>
       /\ (ret = none) <=> ValidationFailed
       /\ ~ValidationFailed =>
            /\ isSome(heap, ret)
            /\ Payload(heap, ret) = Data(Schema, call.arg)
            /\ \A i \in SafeParseCalls : Payload(heap, ret) = calls[i].ret
  /\ call.op = "parseNullableOption" =>
       /\ (ret = none) <=> (call.arg \in {Null, Undef} \/ ValidationFailed)
       /\ ret # none =>
            /\ isSome(heap, ret)
            /\ Payload(heap, ret) = Data(Schema, call.arg)
            /\ \A i \in SafeParseCalls : Payload(heap, ret) = calls[i].ret

\* a string that is there, parsed to null: the result is some(null)
C29_Witness ==
  /\ call.op = "parseNullableOption"
  /\ Schema = "emptyToNull"
  /\ call.arg = Str("")
  /\ isSome(heap, ret)
  /\ Payload(heap, ret) = Null

\* how often a run (its call log given) invoked the function f
Invocations(log, f) == Cardinality({i \in 1..Len(log) : log[i].fn = f})

\* C30: map(f)(opt) equals flatMap(a => some(f(a)))(opt) for every f and
\* every Option, mapEither(f)(e) equals flatMapEither(a => right(f(a)))(e) for
\* every Either; in both pairs f is invoked as often: once for the present
\* variant, never for the absent one.
C30_MapIsFlatMapSome ==
  /\ (call.op = "flatMap" /\ call.cb.name = "someOf") =>
       LET r == map(Start, Cb(call.cb.f), call.arg)
       IN /\ SameValue(r.heap, r.ret, ret)
          /\ Invocations(r.calls, Cb(call.cb.f)) = Invocations(calls, Cb(call.cb.f))
          /\ Invocations(calls, Cb(call.cb.f)) = (IF isSome(heap, call.arg) THEN 1 ELSE 0)
  /\ (call.op = "map" /\ call.cb.f = "") =>
       LET r == flatMap(Start, SomeOf(call.cb.name), call.arg)
       IN /\ SameValue(r.heap, r.ret, ret)
          /\ Invocations(r.calls, call.cb) = Invocations(calls, call.cb)
          /\ Invocations(calls, call.cb) = (IF isSome(heap, call.arg) THEN 1 ELSE 0)
  /\ (call.op = "flatMapEither" /\ call.cb.name = "rightOf") =>
       LET r == mapEither(Start, Cb(call.cb.f), call.arg)
       IN /\ SameValue(r.heap, r.ret, ret)
          /\ Invocations(r.calls, Cb(call.cb.f)) = Invocations(calls, Cb(call.cb.f))
          /\ Invocations(calls, Cb(call.cb.f)) = (IF isRight(heap, call.arg) THEN 1 ELSE 0)
  /\ (call.op = "mapEither" /\ call.cb.f = "") =>
       LET r == flatMapEither(Start, RightOf(call.cb.name), call.arg)
       IN /\ SameValue(r.heap, r.ret, ret)
          /\ Invocations(r.calls, call.cb) = Invocations(calls, call.cb)
          /\ Invocations(calls, call.cb) = (IF isRight(heap, call.arg) THEN 1 ELSE 0)

\* flatMap(a => some(double(a)))(some(5)) is some(10)
C30_Witness ==
  /\ call.op = "flatMap"
  /\ call.cb = SomeOf("double")
  /\ heap[call.arg.n] = SomeObj(Num(5))
  /\ heap[ret.n] = SomeObj(Num(10))
  /\ Len(calls) = 2

====
